---- MODULE Spec2Model ----
(***************************************************************************)
(* Model of the LLDB command scripts of the dotfiles repository:           *)
(*   lldb/sbt.py                     sbt   (symbolicate a backtrace)        *)
(*   lldb/commands/msl.py            msl   (malloc stack logging traces)    *)
(*   lldb/commands/breakafterregex.py  bar (step out and print the return)  *)
(*   lldb/breakafterregex.py         bar   (the older copy of the script)   *)
(*   lldb/commands/lookup.py         lookup (functions matching a regex)    *)
(*   generate_new_script.py          __generate_script (a script skeleton)  *)
(* The debuggee (its symbols, the Objective-C methods of its images, the    *)
(* outcome of expression evaluation) is the state; every command handler   *)
(* is one action that leaves the outcome of the call in `last`.             *)
(*                                                                         *)
(* Strings are sequences: numbers are spelled digit by digit, names are    *)
(* sequences of tokens, so that concatenation is \o and a formatted number *)
(* has to be parsed back to be compared with a number.                     *)
(***************************************************************************)
EXTENDS Integers, Sequences, FiniteSets, TLC

\* ------------------------------------------------------------------ bounds
\* Lowest load address of the modelled text section (0x1000).
BaseAddr == 4096
\* Number of consecutive load addresses of the modelled text section.
AddrSpan == 2
\* Longest backtrace handed to the resolvers.
MaxFrames == 3
\* Most components of a target triple handed to both register resolvers.
MaxComponents == 3
\* Most function contexts a lookup query returns.
MaxContexts == 3

Addrs == BaseAddr .. (BaseAddr + AddrSpan - 1)

None == "None"

\* --------------------------------------------------- Python string helpers
Digits == <<"0", "1", "2", "3", "4", "5", "6", "7", "8", "9">>
HexDigits == <<"0", "1", "2", "3", "4", "5", "6", "7", "8", "9",
               "a", "b", "c", "d", "e", "f">>

\* str(n), and NSNumber's stringValue, of a non-negative integer.
RECURSIVE py_str(_)
py_str(n) ==
    IF n < 10 THEN <<Digits[n + 1]>>
    ELSE py_str(n \div 10) \o <<Digits[(n % 10) + 1]>>

RECURSIVE hex_digits(_)
hex_digits(n) ==
    IF n < 16 THEN <<HexDigits[n + 1]>>
    ELSE hex_digits(n \div 16) \o <<HexDigits[(n % 16) + 1]>>

\* hex(n) of a non-negative integer: "0x" and the lowercase digits, no padding.
py_hex(n) == <<"0", "x">> \o hex_digits(n)

\* int(s) for a string of decimal digits.
RECURSIVE py_int(_)
py_int(s) ==
    IF Len(s) = 0 THEN 0
    ELSE py_int(SubSeq(s, 1, Len(s) - 1)) * 10
         + ((CHOOSE d \in 1 .. 10 : Digits[d] = s[Len(s)]) - 1)

\* f"{index:<2}": the number, left aligned, padded with blanks to width 2.
format_left2(n) ==
    LET s == py_str(n) IN IF Len(s) < 2 THEN s \o <<" ">> ELSE s

\* ------------------------------------------------------------ the debuggee
\* symtab    per load address: a "named" or "synthetic" symbol starts there, or
\*           the address lies "inside" the symbol that starts below it
\* methods   the load addresses that are entry points of loaded methods
\* classes   per method entry: the class that implements it, the image that
\*           class is defined in, and whether the class is a root class
\* last      outcome of the last command, callback or resolver call
\* prev      outcome of the sbt call before it, when `last` repeats that call
\*           with the same addresses; NoCall otherwise
VARIABLES symtab, methods, classes, last, prev

vars == <<symtab, methods, classes, last, prev>>

\* target.ResolveLoadAddress(a).symbol: the symbol containing a, the one with
\* the greatest start address <= a.
SymbolStart(a) ==
    CHOOSE s \in Addrs :
        /\ s <= a
        /\ symtab[s] # "inside"
        /\ \A t \in Addrs : (t <= a /\ symtab[t] # "inside") => t <= s

\* symbol.name, as the host names symbols: a stripped function gets the
\* placeholder ___lldb_unnamed_symbol<N>$$<module>.
SymbolName(s) ==
    IF symtab[s] = "synthetic"
    THEN <<"___lldb_unnamed_symbol">> \o py_str(s - BaseAddr) \o <<"$$", "MyApp">>
    ELSE <<"func_">> \o py_str(s - BaseAddr)

\* The SBAddress target.ResolveLoadAddress(frame_addr) answers with.
ResolveLoadAddress(frame_addr) ==
    LET s == SymbolStart(frame_addr) IN
    [ load_address |-> frame_addr,
      basename |-> "MyApp",
      symbol |-> [ name |-> SymbolName(s),
                   synthetic |-> (symtab[s] = "synthetic"),
                   start |-> s ] ]

\* The Objective-C method implemented at entry address a, when one is loaded:
\* its class, selector, kind (instance "-" or class "+") and defining image.
MethodAt(a) ==
    [ imp |-> a,
      cls |-> classes[a].cls,
      sel |-> <<"m">> \o py_str(a - BaseAddr),
      kind |-> IF (a - BaseAddr) % 2 = 0 THEN "-" ELSE "+",
      image |-> classes[a].image,
      root |-> classes[a].root ]

LoadedMethods == { MethodAt(a) : a \in methods }

\* ------------------------------------------- sbt.py: the introspection script
\* The Objective-C array literal generate_executable_methods_script builds from
\* the symbol start addresses; [:-1] drops the last character, the trailing
\* comma (or, for no address at all, the opening bracket).
RECURSIVE frame_addr_items(_)
frame_addr_items(frame_addresses) ==
    IF Len(frame_addresses) = 0 THEN <<>>
    ELSE <<"@\"">> \o py_str(Head(frame_addresses)) \o <<"\"", ",">>
         \o frame_addr_items(Tail(frame_addresses))

generate_executable_methods_script(frame_addresses) ==
    LET frame_addr_str == <<"NSArray *ar = @", "[">> \o frame_addr_items(frame_addresses)
    IN SubSeq(frame_addr_str, 1, Len(frame_addr_str) - 1) \o <<"]", ";">>

\* The expression parser of the host on the array literal: it compiles when
\* the brackets match, and then `ar` holds the quoted strings.
ScriptCompiles(script) == script[2] = "["

RECURSIVE SplitElements(_)
SplitElements(b) ==
    IF Len(b) = 0 THEN <<>>
    ELSE LET close == CHOOSE j \in 2 .. Len(b) :
                          b[j] = "\"" /\ \A k \in 2 .. (j - 1) : b[k] # "\""
             rest == SubSeq(b, close + 1, Len(b))
         IN <<SubSeq(b, 2, close - 1)>>
            \o SplitElements(IF Len(rest) > 0 THEN Tail(rest) ELSE rest)

ScriptArray(script) ==
    LET elems == SplitElements(SubSeq(script, 3, Len(script) - 2))
    IN { elems[i] : i \in DOMAIN elems }

\* "-[Type selector]" / "+[Type selector]", as the script concatenates it.
MethodName(m) == <<m.kind, "[", m.cls, " ">> \o m.sel \o <<"]">>

\* The classes the script walks: objc_copyClassNamesForImage of the main
\* bundle's executable path (lines 113-114), less the classes without a
\* superclass (line 117).
ScannedClass(m) == m.image = "main" /\ ~m.root

\* Variant of RetDict: the classes of every loaded image are walked.
RetDict_every_image ==
    { [key |-> py_str(m.imp), value |-> MethodName(m)] :
          m \in { x \in LoadedMethods : ~x.root } }

\* retdict of the script: the instance and class methods of the classes it
\* walks, keyed by the decimal string of the implementation address.
RetDict ==
    { [key |-> py_str(m.imp), value |-> MethodName(m)] :
          m \in { x \in LoadedMethods : ScannedClass(x) } }

\* stackDict of the script: the entries of retdict whose key is in `ar`.
StackDict(script) == { e \in RetDict : e.key \in ScriptArray(script) }

\* The orders in which the host may enumerate a dictionary.
Enumerations(S) ==
    { f \in [1 .. Cardinality(S) -> S] : \A i, j \in DOMAIN f : f[i] = f[j] => i = j }

\* How the host behaves during one call: whether expression evaluation in the
\* inferior works (query_ok), and the order in which it enumerates retdict.
Hosts == [query_ok : BOOLEAN, enum : Enumerations(RetDict)]

\* target.EvaluateExpression(script, options) and methods.deref: the children
\* of the returned dictionary in the host's enumeration order; an evaluation
\* that fails yields an invalid value, which has no children.
EvaluateExpression(script, host) ==
    IF host.query_ok /\ ScriptCompiles(script)
    THEN [valid |-> TRUE,
          children |-> SelectSeq(host.enum, LAMBDA e : e \in StackDict(script))]
    ELSE [valid |-> FALSE, children |-> <<>>]

GetNumChildren(methods_val) ==
    IF methods_val.valid THEN Len(methods_val.children) ELSE 0

\* ------------------------------------------------ sbt.py: the backtrace resolver
UnresolvedMarker == <<" ... unresolved womp womp">>

\* Variant of sbt_scan: the key is compared as the string it is read as, which
\* no load address equals.
sbt_scan_str_key(methods_val, load_address, name, i) == name

\* Variant of sbt_scan: the key test is lost, the first child names the frame.
sbt_scan_first_child(methods_val, load_address, name, i) ==
    IF i > GetNumChildren(methods_val) THEN name
    ELSE methods_val.children[i].value

\* Lines 66-71: the scan of the children from child i on; the first child whose
\* key is the load address gives the name (break), otherwise `name` stays.
RECURSIVE sbt_scan(_, _, _, _)
sbt_scan(methods_val, load_address, name, i) ==
    IF i > GetNumChildren(methods_val) THEN name
    ELSE IF py_int(methods_val.children[i].key) = load_address
         THEN methods_val.children[i].value
         ELSE sbt_scan(methods_val, load_address, name, i + 1)

\* Variant of sbt_name: the placeholder is kept without the marker.
sbt_name_no_marker(symbol, methods_val) ==
    IF symbol.synthetic
    THEN sbt_scan(methods_val, symbol.start, symbol.name, 1)
    ELSE symbol.name

\* Lines 60-73: the name of one frame.
sbt_name(symbol, methods_val) ==
    IF symbol.synthetic
    THEN sbt_scan(methods_val, symbol.start, symbol.name \o UnresolvedMarker, 1)
    ELSE symbol.name

\* Lines 75-78: the offset suffix.
sbt_offset_str(offset) ==
    IF offset > 0 THEN <<"+", " ">> \o py_str(offset) ELSE <<>>

\* Line 80: one line of the trace; the record keeps the interpolated fields of
\* f"frame #{index:<2}: {hex(addr)} {basename}`{name} {offset_str}\n".
sbt_frame(index, frame_addr, methods_val) ==
    LET addr == ResolveLoadAddress(frame_addr)
        symbol == addr.symbol
        offset == addr.load_address - addr.symbol.start
    IN [ prefix |-> "frame #",
         index |-> format_left2(index),
         addr |-> py_hex(addr.load_address),
         module |-> addr.basename,
         name |-> sbt_name(symbol, methods_val),
         offset_str |-> sbt_offset_str(offset) ]

\* Variant of sbt_frame_string: an address seen earlier in the trace is skipped.
RECURSIVE sbt_frame_string_dedup(_, _, _)
sbt_frame_string_dedup(frame_addresses, methods_val, n) ==
    IF n = 0 THEN <<>>
    ELSE IF \E j \in 1 .. (n - 1) : frame_addresses[j] = frame_addresses[n]
         THEN sbt_frame_string_dedup(frame_addresses, methods_val, n - 1)
         ELSE Append(sbt_frame_string_dedup(frame_addresses, methods_val, n - 1),
                     sbt_frame(n - 1, frame_addresses[n], methods_val))

\* Lines 56-80: the loop over enumerate(frame_addresses); frame_string after the
\* first n frames.
RECURSIVE sbt_frame_string(_, _, _)
sbt_frame_string(frame_addresses, methods_val, n) ==
    IF n = 0 THEN <<>>
    ELSE Append(sbt_frame_string(frame_addresses, methods_val, n - 1),
                sbt_frame(n - 1, frame_addresses[n], methods_val))

\* Lines 46-52: the scripts handed to target.EvaluateExpression during one call.
sbt_queries(frame_addresses) ==
    LET start_addresses == [ i \in DOMAIN frame_addresses |->
                               ResolveLoadAddress(frame_addresses[i]).symbol.start ]
    IN << generate_executable_methods_script(start_addresses) >>

\* Lines 47 and 57: the addresses handed to target.ResolveLoadAddress.
sbt_resolved(frame_addresses) == frame_addresses \o frame_addresses

\* Variant of sbt_process: the query is issued only when a frame is synthetic.
sbt_process_query_if_synthetic(frame_addresses, host) ==
    LET queries == sbt_queries(frame_addresses)
        needed == \E i \in DOMAIN frame_addresses :
                      ResolveLoadAddress(frame_addresses[i]).symbol.synthetic
        methods_val == IF needed THEN EvaluateExpression(queries[1], host)
                       ELSE [valid |-> TRUE, children |-> <<>>]
    IN [ raised |-> FALSE,
         frame_string |-> sbt_frame_string(frame_addresses, methods_val,
                                           Len(frame_addresses)),
         queries |-> IF needed THEN queries ELSE <<>>,
         methods_val |-> methods_val,
         resolved |-> sbt_resolved(frame_addresses) ]

\* Variant of sbt_process: the query is issued inside the loop, once per
\* synthetic frame.
sbt_process_query_per_frame(frame_addresses, host) ==
    LET queries == sbt_queries(frame_addresses)
        methods_val == EvaluateExpression(queries[1], host)
        synthetic == SelectSeq(frame_addresses,
                               LAMBDA f : ResolveLoadAddress(f).symbol.synthetic)
    IN [ raised |-> FALSE,
         frame_string |-> sbt_frame_string(frame_addresses, methods_val,
                                           Len(frame_addresses)),
         queries |-> [ i \in DOMAIN synthetic |-> queries[1] ],
         methods_val |-> methods_val,
         resolved |-> sbt_resolved(frame_addresses) ]

\* Variant of sbt_process: a query that fails is raised to the caller.
sbt_process_raise_on_failure(frame_addresses, host) ==
    LET queries == sbt_queries(frame_addresses)
        methods_val == EvaluateExpression(queries[1], host)
    IN [ raised |-> ~methods_val.valid,
         frame_string |-> IF methods_val.valid
                          THEN sbt_frame_string(frame_addresses, methods_val,
                                                Len(frame_addresses))
                          ELSE <<>>,
         queries |-> queries,
         methods_val |-> methods_val,
         resolved |-> sbt_resolved(frame_addresses) ]

\* sbt.process_stack_trace_string_from_addresses(frame_addresses, target).
sbt_process(frame_addresses, host) ==
    LET queries == sbt_queries(frame_addresses)
        methods_val == EvaluateExpression(queries[Len(queries)], host)
    IN [ raised |-> FALSE,
         frame_string |-> sbt_frame_string(frame_addresses, methods_val,
                                           Len(frame_addresses)),
         queries |-> queries,
         methods_val |-> methods_val,
         resolved |-> sbt_resolved(frame_addresses) ]

\* Variant of sbt_handle_command_result: the error is set but the handler does
\* not return, and goes on with the frames it finds (none).
sbt_handle_command_result_no_return(thread, host) ==
    LET frame_addresses == thread.frames
        r == sbt_process(frame_addresses, host)
    IN [ cmd |-> "sbt", thread |-> thread, resolver |-> "sbt",
         frame_addresses |-> frame_addresses, query_ok |-> host.query_ok,
         error |-> IF thread.is_none
                   THEN "LLDB must be paused to execute this command" ELSE None,
         messages |-> <<r.frame_string>>,
         frame_string |-> r.frame_string,
         queries |-> r.queries, methods_val |-> r.methods_val,
         resolved |-> r.resolved, raised |-> r.raised ]

\* sbt.handle_command(debugger, command, result, internal_dict); `thread` is
\* process.GetSelectedThread(): no thread (None), or a thread with the load
\* addresses of its frames.
sbt_handle_command_result(thread, host) ==
    IF thread.is_none
    THEN [ cmd |-> "sbt", thread |-> thread, resolver |-> "none",
           error |-> "LLDB must be paused to execute this command",
           messages |-> <<>>, queries |-> <<>>, resolved |-> <<>>,
           raised |-> FALSE ]
    ELSE LET frame_addresses == thread.frames
             r == sbt_process(frame_addresses, host)
         IN [ cmd |-> "sbt", thread |-> thread, resolver |-> "sbt",
              frame_addresses |-> frame_addresses, query_ok |-> host.query_ok,
              error |-> None, messages |-> <<r.frame_string>>,
              frame_string |-> r.frame_string,
              queries |-> r.queries, methods_val |-> r.methods_val, resolved |-> r.resolved,
              raised |-> r.raised ]

\* ------------------------------------------------ msl.py: the plain formatter
\* Variant of msl_offset_str: the suffix is also written for offset 0.
msl_offset_str_from_zero(offset) ==
    IF offset >= 0 THEN <<"+", " ">> \o py_str(offset) ELSE <<>>

\* Lines 92-95: the offset suffix.
msl_offset_str(offset) ==
    IF offset > 0 THEN <<"+", " ">> \o py_str(offset) ELSE <<>>

\* Lines 89-97: one line of the trace.
msl_frame(index, frame_addr) ==
    LET addr == ResolveLoadAddress(frame_addr)
        symbol == addr.symbol
        offset == addr.load_address - addr.symbol.start
    IN [ prefix |-> "frame # ",
         index |-> format_left2(index),
         addr |-> py_hex(addr.load_address),
         module |-> addr.basename,
         name |-> symbol.name,
         offset_str |-> msl_offset_str(offset) ]

RECURSIVE msl_frame_string(_, _)
msl_frame_string(frame_addresses, n) ==
    IF n = 0 THEN <<>>
    ELSE Append(msl_frame_string(frame_addresses, n - 1),
                msl_frame(n - 1, frame_addresses[n]))

\* msl.process_stack_trace_string_from_addresses(frame_addresses, target).
msl_process(frame_addresses) ==
    [ raised |-> FALSE,
      frame_string |-> msl_frame_string(frame_addresses, Len(frame_addresses)),
      queries |-> <<>>,
      resolved |-> frame_addresses ]

\* ------------------------------- commands/breakafterregex.py: the bar callback
\* `sub in triple_name` on the components of a triple: a component includes a
\* substring when it is that string or one of its sub-architectures.
Includes(component, sub) ==
    \/ component = sub
    \/ <<component, sub>> \in { <<"arm64e", "arm64">>, <<"x86_64h", "x86_64">> }

Contains(triple_name, sub) ==
    \E i \in DOMAIN triple_name : Includes(triple_name[i], sub)

\* Variant of get_register_string: an unknown triple falls back to $rax.
get_register_string_fallback(triple_name) ==
    IF Contains(triple_name, "i386") THEN [raised |-> FALSE, value |-> "$eax"]
    ELSE IF Contains(triple_name, "arm64") THEN [raised |-> FALSE, value |-> "$x0"]
    ELSE [raised |-> FALSE, value |-> "$rax"]

\* get_register_string(target), on target.GetTriple().
get_register_string(triple_name) ==
    IF Contains(triple_name, "x86_64") THEN [raised |-> FALSE, value |-> "$rax"]
    ELSE IF Contains(triple_name, "i386") THEN [raised |-> FALSE, value |-> "$eax"]
    ELSE IF Contains(triple_name, "arm64") THEN [raised |-> FALSE, value |-> "$x0"]
    ELSE [raised |-> TRUE, value |-> "Unknown hardware."]

\* evaluate_returned_object and breakpoint_handler: the calls made on the host,
\* in order, what is printed and what the callback returns. An exception of
\* get_register_string leaves the callback before anything is evaluated.
breakpoint_handler_result(triple_name, function_name, parent_function_name, has_result) ==
    LET reg == get_register_string(triple_name)
        before == << "GetFunctionName", "SetAsync(False)", "StepOut",
                     "GetSelectedFrame", "GetFunctionName", "GetTriple" >>
    IN IF reg.raised
       THEN [ cmd |-> "bar_hit", triple |-> triple_name, resolver |-> "none",
              function_name |-> function_name, steps |-> before,
              register |-> None, raised |-> TRUE, exception |-> reg.value,
              printed |-> <<>>, returned |-> None ]
       ELSE [ cmd |-> "bar_hit", triple |-> triple_name, resolver |-> "none",
              function_name |-> function_name,
              steps |-> Append(before, "HandleCommand"),
              expression |-> <<"expression -lobjc -O -- ", reg.value>>,
              register |-> reg.value, raised |-> FALSE, exception |-> None,
              has_result |-> has_result,
              printed |-> IF has_result
                          THEN << [object |-> function_name,
                                   stopped |-> parent_function_name] >>
                          ELSE <<>>,
              returned |-> "False" ]

\* ------------------------------ lldb/breakafterregex.py: the older bar script
\* Variant of breakafterregex_get_register_string: "i386" is tested first.
breakafterregex_get_register_string_i386_first(triple_name) ==
    IF Contains(triple_name, "i386") THEN [raised |-> FALSE, value |-> "$eax"]
    ELSE IF Contains(triple_name, "x86_64") THEN [raised |-> FALSE, value |-> "$rax"]
    ELSE IF Contains(triple_name, "arm64") THEN [raised |-> FALSE, value |-> "$x0"]
    ELSE [raised |-> TRUE, value |-> "Unknown hardware."]

\* breakafterregex.get_register_string(target) of lldb/breakafterregex.py, on
\* target.GetTriple().
breakafterregex_get_register_string(triple_name) ==
    IF Contains(triple_name, "x86_64") THEN [raised |-> FALSE, value |-> "$rax"]
    ELSE IF Contains(triple_name, "i386") THEN [raised |-> FALSE, value |-> "$eax"]
    ELSE IF Contains(triple_name, "arm64") THEN [raised |-> FALSE, value |-> "$x0"]
    ELSE [raised |-> TRUE, value |-> "Unknown hardware."]

\* ------------------------------------------- commands/lookup.py: the lookup
\* format(n, "012x"): lowercase hexadecimal digits, zero-padded to width 12.
format_012x(n) ==
    LET h == hex_digits(n)
    IN IF Len(h) < 12 THEN [i \in 1 .. (12 - Len(h)) |-> "0"] \o h ELSE h

\* Variant of generate_module_dictionary: the key is the module's basename.
RECURSIVE generate_module_dictionary_by_basename(_)
generate_module_dictionary_by_basename(context_list) ==
    IF Len(context_list) = 0 THEN <<>>
    ELSE LET n == Len(context_list)
             mdict == generate_module_dictionary_by_basename(SubSeq(context_list, 1, n - 1))
             context == context_list[n]
             key == context.module.basename
         IN IF \E i \in DOMAIN mdict : mdict[i].key = key
            THEN [ i \in DOMAIN mdict |->
                     IF mdict[i].key = key
                     THEN [mdict[i] EXCEPT !.contexts = Append(@, context)]
                     ELSE mdict[i] ]
            ELSE Append(mdict, [key |-> key, contexts |-> <<context>>])

\* generate_module_dictionary(context_list): the dict as the sequence of its
\* items in insertion order, which is the order a Python dict iterates in.
RECURSIVE generate_module_dictionary(_)
generate_module_dictionary(context_list) ==
    IF Len(context_list) = 0 THEN <<>>
    ELSE LET n == Len(context_list)
             mdict == generate_module_dictionary(SubSeq(context_list, 1, n - 1))
             context == context_list[n]
             key == context.module.fullpath
         IN IF \E i \in DOMAIN mdict : mdict[i].key = key
            THEN [ i \in DOMAIN mdict |->
                     IF mdict[i].key = key
                     THEN [mdict[i] EXCEPT !.contexts = Append(@, context)]
                     ELSE mdict[i] ]
            ELSE Append(mdict, [key |-> key, contexts |-> <<context>>])

\* separator: "*" * 60, one line.
Separator == <<"************************************************************">>

\* Lines 137-151: the lines written for one context.
lookup_query(context, options) ==
    (IF options.load_address
     THEN << <<"[", "0x">> \o format_012x(context.symbol.start)
             \o <<"-", "0x">> \o format_012x(context.symbol.end) \o <<"]">> >>
     ELSE <<>>)
    \o << <<context.symbol.name>>, <<>> >>

RECURSIVE lookup_queries(_, _)
lookup_queries(contexts, options) ==
    IF Len(contexts) = 0 THEN <<>>
    ELSE lookup_query(Head(contexts), options) \o lookup_queries(Tail(contexts), options)

\* generate_output(mdict, options, target): the output as the sequence of its
\* lines, each line the sequence of the pieces interpolated into it.
RECURSIVE generate_output(_, _)
generate_output(mdict, options) ==
    IF Len(mdict) = 0 THEN <<>>
    ELSE LET item == Head(mdict)
             count == Len(item.contexts)
             first_item == item.contexts[1]
             module_name == first_item.module.basename
             hits == py_str(count) \o <<" hits in ", module_name>>
         IN (IF options.module_summary
             THEN <<hits>>
             ELSE <<Separator, hits, Separator>> \o lookup_queries(item.contexts, options))
            \o generate_output(Tail(mdict), options)

\* lookup.handle_command(debugger, command, exe_ctx, result, internal_dict);
\* context_list is what target.FindGlobalFunctions answers for the query.
lookup_handle_command_result(command, context_list) ==
    IF command.kind = "bad_option"
    THEN [ cmd |-> "lookup", resolver |-> "none", command |-> command,
           error |-> "usage: %prog [options] code_to_query",
           raised |-> FALSE, messages |-> <<>> ]
    ELSE IF command.kind = "no_query"
    THEN [ cmd |-> "lookup", resolver |-> "none", command |-> command,
           error |-> None, raised |-> TRUE, exception |-> "IndexError",
           messages |-> <<>> ]
    ELSE LET mdict == generate_module_dictionary(context_list)
             output == generate_output(mdict, command.options)
         IN [ cmd |-> "lookup", resolver |-> "none", command |-> command,
              context_list |-> context_list, options |-> command.options,
              mdict |-> mdict, output |-> output,
              error |-> None, raised |-> FALSE, messages |-> <<output>> ]

\* ------------------------------- generate_new_script.py: __generate_script
\* A path is the sequence of its pieces: the directory of the script, the
\* pieces of the file name, an extension being a piece that starts with a dot.
ScriptsDir == "/scripts/"
Extensions == {".py", ".txt"}

\* ('').join(args): the arguments run together.
RECURSIVE py_join(_)
py_join(args) ==
    IF Len(args) = 0 THEN <<>> ELSE Head(args) \o py_join(Tail(args))

\* os.path.splitext(path)[0]: the path without what follows the last dot of
\* the file name, a dot that starts the file name not counted.
py_splitext_root(path) ==
    LET dots == { k \in 3 .. Len(path) : path[k] \in Extensions }
    IN IF dots = {} THEN path
       ELSE SubSeq(path, 1, (CHOOSE k \in dots : \A j \in dots : j <= k) - 1)

\* Line 38: file_path.
generate_file_path(clean_command) ==
    py_splitext_root(<<ScriptsDir>> \o clean_command) \o <<".py">>

\* generate_function_file(filename, options): the script text, as the pieces
\* the file name and the command name are interpolated into.
generate_function_file(filename, options) ==
    LET resolved_name == IF options.command_name # None
                         THEN <<options.command_name>> ELSE filename
    IN <<"command script add -o -f ">> \o filename \o <<".handle_command ">>
       \o resolved_name \o <<" -h \"Short documentation here\"">>
       \o <<"Documentation for how to use ">> \o resolved_name
       \o <<"Hello! the ">> \o resolved_name \o <<" command is working!">>
       \o <<"prog=\"">> \o resolved_name \o <<"\"">>

\* create_or_touch_filepath(filepath, script) on the file system fs: open for
\* writing truncates or creates the file, and fails on a directory; chmod adds
\* the owner's execute bit.
create_or_touch_filepath(fs, filepath, script) ==
    IF fs[filepath].kind = "dir"
    THEN [ raised |-> TRUE, fs |-> fs, steps |-> <<"open">> ]
    ELSE [ raised |-> FALSE,
           fs |-> [fs EXCEPT ![filepath] =
                      [kind |-> "file", content |-> script, exec |-> TRUE]],
           steps |-> <<"open", "write", "flush", "stat", "chmod", "close">> ]

\* Variant of generate_new_script_result: the test for an existing file is
\* left out.
generate_new_script_result_no_isfile(command, fs) ==
    IF command.kind = "bad_option"
    THEN [ cmd |-> "generate", resolver |-> "none", command |-> command,
           fs_before |-> fs, fs_after |-> fs, steps |-> <<>>,
           error |-> "usage: %prog [options] nameofscript",
           raised |-> FALSE, messages |-> <<>> ]
    ELSE IF Len(command.args) = 0
    THEN [ cmd |-> "generate", resolver |-> "none", command |-> command,
           fs_before |-> fs, fs_after |-> fs, steps |-> <<>>,
           error |-> "Expects a filename. Usage __generate_script filename",
           raised |-> FALSE, messages |-> <<>> ]
    ELSE LET clean_command == py_join(command.args)
             file_path == generate_file_path(clean_command)
             script == generate_function_file(clean_command, command.options)
             made == create_or_touch_filepath(fs, file_path, script)
         IN [ cmd |-> "generate", resolver |-> "none", command |-> command,
              file_path |-> file_path,
              fs_before |-> fs, fs_after |-> made.fs,
              steps |-> <<"isfile">> \o made.steps
                            \o (IF made.raised THEN <<>> ELSE <<"open -R">>),
              error |-> None, raised |-> made.raised,
              messages |-> IF made.raised THEN <<>>
                           ELSE << <<"Opening \"">> \o file_path \o <<"\"...">> >> ]

\* generate_new_script(debugger, command, ext_ctx, result, internal_dict) on
\* the file system fs: the file system it leaves, the calls that touch it, and
\* what is handed to result.
generate_new_script_result(command, fs) ==
    IF command.kind = "bad_option"
    THEN [ cmd |-> "generate", resolver |-> "none", command |-> command,
           fs_before |-> fs, fs_after |-> fs, steps |-> <<>>,
           error |-> "usage: %prog [options] nameofscript",
           raised |-> FALSE, messages |-> <<>> ]
    ELSE IF Len(command.args) = 0
    THEN [ cmd |-> "generate", resolver |-> "none", command |-> command,
           fs_before |-> fs, fs_after |-> fs, steps |-> <<>>,
           error |-> "Expects a filename. Usage __generate_script filename",
           raised |-> FALSE, messages |-> <<>> ]
    ELSE LET clean_command == py_join(command.args)
             file_path == generate_file_path(clean_command)
         IN IF fs[file_path].kind = "file"
            THEN [ cmd |-> "generate", resolver |-> "none", command |-> command,
                   file_path |-> file_path,
                   fs_before |-> fs, fs_after |-> fs, steps |-> <<"isfile">>,
                   error |-> "There already exists a file named \"{}\", please remove the file at \"{}\" first",
                   error_format |-> <<clean_command, file_path>>,
                   raised |-> FALSE, messages |-> <<>> ]
            ELSE LET script == generate_function_file(clean_command, command.options)
                     made == create_or_touch_filepath(fs, file_path, script)
                 IN [ cmd |-> "generate", resolver |-> "none", command |-> command,
                      file_path |-> file_path,
                      fs_before |-> fs, fs_after |-> made.fs,
                      steps |-> <<"isfile">> \o made.steps
                                    \o (IF made.raised THEN <<>> ELSE <<"open -R">>),
                      error |-> None, raised |-> made.raised,
                      messages |-> IF made.raised THEN <<>>
                                   ELSE << <<"Opening \"">> \o file_path \o <<"\"...">> >> ]

\* ------------------------------------------------------------ state machine
FrameSeqs == UNION { [1 .. n -> Addrs] : n \in 0 .. MaxFrames }

Archs == {"x86_64", "x86_64h", "i386", "arm64", "arm64e", "armv7", "unknown"}

\* Target triples: an architecture and the vendor/system components.
HostTriples ==
    { <<a>> \o rest : a \in Archs,
                      rest \in { <<"apple", "ios">>, <<"triple">> } }

\* process.GetSelectedThread() as a command may find it.
Threads ==
    { [is_none |-> TRUE, frames |-> <<>>] }
    \cup { [is_none |-> FALSE, frames |-> fs] : fs \in FrameSeqs }

NoCall == [called |-> FALSE]

FunctionNames == { <<"-", "[", "Cls", " ", "m", "0", "]">>, <<"func_", "1">> }

\* The classes of the debuggee: Cls of the main executable, its root class
\* Root, and Lib of a dynamic library loaded with it.
Classes ==
    { [cls |-> "Cls", image |-> "main", root |-> FALSE],
      [cls |-> "Root", image |-> "main", root |-> TRUE],
      [cls |-> "Lib", image |-> "lib", root |-> FALSE] }

\* An application whose first two functions belong to Cls and the rest to Lib.
AppLayout(a) ==
    IF a - BaseAddr < 2 THEN [cls |-> "Cls", image |-> "main", root |-> FALSE]
    ELSE [cls |-> "Lib", image |-> "lib", root |-> FALSE]

Init ==
    /\ symtab \in [Addrs -> {"named", "synthetic", "inside"}]
    /\ symtab[BaseAddr] # "inside"
    /\ methods \in SUBSET { a \in Addrs : symtab[a] # "inside" }
    /\ classes = [a \in methods |-> AppLayout(a)]
    /\ last = [cmd |-> "none", resolver |-> "none"]
    /\ prev = NoCall

\* A stripped application (every symbol is synthetic) whose methods belong to
\* any of the classes.
InitImages ==
    /\ symtab \in [Addrs -> {"synthetic", "inside"}]
    /\ symtab[BaseAddr] # "inside"
    /\ methods \in SUBSET { a \in Addrs : symtab[a] # "inside" }
    /\ classes \in [methods -> Classes]
    /\ last = [cmd |-> "none", resolver |-> "none"]
    /\ prev = NoCall

\* What `prev` keeps when the call `new` follows `last`.
Repeated(new) ==
    IF /\ new.resolver = "sbt"
       /\ last.resolver = "sbt"
       /\ last.frame_addresses = new.frame_addresses
    THEN [ called |-> TRUE, query_ok |-> last.query_ok,
           methods_val |-> last.methods_val,
           frame_string |-> last.frame_string ]
    ELSE NoCall

Record(new) ==
    /\ last' = new
    /\ prev' = Repeated(new)
    /\ UNCHANGED <<symtab, methods, classes>>

\* A command is observed from the prompt, or it repeats the sbt call whose
\* outcome `last` still shows, on the same addresses.
AtPrompt == last.cmd = "none"

\* The threads sbt may find selected: any at the prompt, the same one again
\* after an sbt call.
SelectableThreads ==
    IF AtPrompt THEN Threads
    ELSE IF last.resolver = "sbt"
         THEN { [is_none |-> FALSE, frames |-> last.frame_addresses] }
         ELSE {}

\* (lldb) sbt
SbtCommand ==
    \E thread \in SelectableThreads, host \in Hosts :
        Record(sbt_handle_command_result(thread, host))

\* msl.process_stack_trace_string_from_addresses called on given addresses.
MslFormat ==
    /\ AtPrompt
    /\ \E frame_addresses \in FrameSeqs :
           Record([ cmd |-> "format", resolver |-> "msl",
                    frame_addresses |-> frame_addresses ]
                  @@ msl_process(frame_addresses))

\* A breakpoint set by bar is hit.
BreakpointHit ==
    /\ AtPrompt
    /\ \E triple_name \in HostTriples, function_name \in FunctionNames,
          parent_function_name \in FunctionNames, has_result \in BOOLEAN :
        /\ parent_function_name # function_name
        /\ Record(breakpoint_handler_result(triple_name, function_name,
                                            parent_function_name, has_result))

\* Triple strings of up to MaxComponents components, each a known substring or
\* an architecture neither script knows.
TripleStrings ==
    UNION { [1 .. n -> {"x86_64", "i386", "arm64", "armv7"}] : n \in 1 .. MaxComponents }

\* The return-value register is asked of both scripts for the same target.
RegisterString ==
    /\ AtPrompt
    /\ \E triple_name \in TripleStrings :
           Record([ cmd |-> "register", resolver |-> "none",
                    triple |-> triple_name,
                    commands |-> get_register_string(triple_name),
                    lldb |-> breakafterregex_get_register_string(triple_name) ])

\* The function contexts target.FindGlobalFunctions can answer with: functions
\* of two libraries of the same file name in different directories, and of a
\* third one.
Contexts ==
    { [ module |-> [fullpath |-> "/usr/lib/Foo", basename |-> "Foo"],
        symbol |-> [name |-> "f", start |-> BaseAddr, end |-> BaseAddr + 1] ],
      [ module |-> [fullpath |-> "/usr/lib/Foo", basename |-> "Foo"],
        symbol |-> [name |-> "g", start |-> BaseAddr + 1, end |-> BaseAddr + 2] ],
      [ module |-> [fullpath |-> "/opt/lib/Foo", basename |-> "Foo"],
        symbol |-> [name |-> "f", start |-> BaseAddr + 16, end |-> BaseAddr + 17] ],
      [ module |-> [fullpath |-> "/usr/lib/Bar", basename |-> "Bar"],
        symbol |-> [name |-> "h", start |-> BaseAddr + 32, end |-> BaseAddr + 33] ] }

\* The lists of up to MaxContexts matches, each function matched once.
ContextLists ==
    UNION { { l \in [1 .. n -> Contexts] : \A i, j \in 1 .. n : l[i] = l[j] => i = j } :
            n \in 0 .. MaxContexts }

\* The command lines of lookup: an option optparse rejects, no query string,
\* or a query string with the flags -l and -s set or not.
LookupCommands ==
    { [kind |-> "bad_option"], [kind |-> "no_query"] }
    \cup { [kind |-> "query", options |-> o] :
             o \in [load_address : BOOLEAN, module_summary : BOOLEAN] }

\* (lldb) lookup [-l] [-s] <regex>
LookupCommand ==
    /\ AtPrompt
    /\ \E command \in LookupCommands :
           \E context_list \in (IF command.kind = "query" THEN ContextLists ELSE {<<>>}) :
               Record(lookup_handle_command_result(command, context_list))

\* The arguments of __generate_script: a file name, with or without an
\* extension, typed as one argument or as two.
ScriptNames == {"foo", "bar"}

ScriptArgs ==
    { << <<n>> >> : n \in ScriptNames }
    \cup { << <<n, e>> >> : n \in ScriptNames, e \in Extensions }
    \cup { << <<n>>, <<e>> >> : n \in ScriptNames, e \in Extensions }

\* The command lines of __generate_script: an option optparse rejects, or the
\* option -n (given or not) with the arguments, possibly none.
GenerateCommands ==
    { [kind |-> "bad_option"] }
    \cup { [kind |-> "parsed", args |-> a, options |-> [command_name |-> n]] :
             a \in ScriptArgs \cup {<<>>}, n \in {None, "cmd"} }

\* The paths of the scripts directory the command can name, and what may be
\* at each: nothing, a script written earlier, or a directory.
ScriptPaths == { <<ScriptsDir, n, ".py">> : n \in ScriptNames }

FileEntries ==
    { [kind |-> "absent", content |-> <<>>, exec |-> FALSE],
      [kind |-> "file", content |-> <<"an older script">>, exec |-> FALSE],
      [kind |-> "dir", content |-> <<>>, exec |-> TRUE] }

\* (lldb) __generate_script [-n name] <filename>
GenerateScript ==
    /\ AtPrompt
    /\ \E command \in GenerateCommands, fs \in [ScriptPaths -> FileEntries] :
           Record(generate_new_script_result(command, fs))

\* The outcome has been read; the debugger is back at its prompt.
Prompt ==
    /\ ~AtPrompt
    /\ last' = [cmd |-> "none", resolver |-> "none"]
    /\ prev' = NoCall
    /\ UNCHANGED <<symtab, methods, classes>>

Next ==
    \/ SbtCommand
    \/ MslFormat
    \/ BreakpointHit
    \/ RegisterString
    \/ LookupCommand
    \/ GenerateScript
    \/ Prompt

Spec == Init /\ [][Next]_vars

\* The same commands on a stripped debuggee with several images.
SpecImages == InitImages /\ [][Next]_vars

\* ------------------------------------------------- reading an outcome back
\* The value of a string of decimal digits, as a reader of the trace takes it.
RECURSIVE DecimalValue(_)
DecimalValue(s) ==
    IF Len(s) = 0 THEN 0
    ELSE DecimalValue(SubSeq(s, 1, Len(s) - 1)) * 10
         + ((CHOOSE d \in 1 .. 10 : Digits[d] = s[Len(s)]) - 1)

IsDecimal(s) ==
    /\ Len(s) > 0
    /\ \A i \in DOMAIN s : \E d \in 1 .. 10 : Digits[d] = s[i]
    /\ Len(s) > 1 => s[1] # "0"

\* The value of "0x" followed by hexadecimal digits.
RECURSIVE HexValue(_)
HexValue(s) ==
    IF Len(s) <= 2 THEN 0
    ELSE HexValue(SubSeq(s, 1, Len(s) - 1)) * 16
         + ((CHOOSE d \in 1 .. 16 : HexDigits[d] = s[Len(s)]) - 1)

\* A string without its trailing blanks.
RECURSIVE StripRight(_)
StripRight(s) ==
    IF Len(s) > 0 /\ s[Len(s)] = " " THEN StripRight(SubSeq(s, 1, Len(s) - 1)) ELSE s

SbtCalled == last.resolver = "sbt"
MslCalled == last.resolver = "msl"

\* The symbol the i-th input address of the last call lies in.
FrameSymbol(i) == ResolveLoadAddress(last.frame_addresses[i]).symbol
FrameOffset(i) == last.frame_addresses[i] - FrameSymbol(i).start

SyntheticFrames == { i \in DOMAIN last.frame_addresses : FrameSymbol(i).synthetic }

\* The entries of the introspection result of the last sbt call.
TableEntries ==
    { last.methods_val.children[i] : i \in 1 .. Len(last.methods_val.children) }

TableAt(start) == { e \in TableEntries : DecimalValue(e.key) = start }

\* --------------------------------------------------------------- the claims

\* C1 (as stated): a call of sbt.process_stack_trace_string_from_addresses whose
\* addresses all map to non-synthetic symbols issues no introspection query.
C1_NoQueryWithoutSynthetic ==
    (SbtCalled /\ Len(last.frame_addresses) > 0 /\ SyntheticFrames = {}) =>
        Len(last.queries) = 0

\* C1 (amended): a call whose addresses all map to non-synthetic symbols still
\* issues the one introspection query; every frame of it carries the original
\* symbol name, whatever the query answered.
C1_OneQueryWithoutSynthetic ==
    (SbtCalled /\ SyntheticFrames = {}) =>
        /\ Len(last.queries) = 1
        /\ \A i \in DOMAIN last.frame_addresses :
               last.frame_string[i].name = FrameSymbol(i).name

C1_Witness ==
    /\ SbtCalled
    /\ Len(last.frame_addresses) >= 2
    /\ SyntheticFrames = {}
    /\ Len(last.queries) = 1
    /\ last.methods_val.valid

\* C2: a call of the resolver with at least one synthetic frame issues exactly
\* one introspection query, however many frames are synthetic.
C2_OneQueryPerCall ==
    (SbtCalled /\ SyntheticFrames # {}) => Len(last.queries) = 1

C2_Witness ==
    /\ SbtCalled
    /\ Cardinality(SyntheticFrames) >= 2
    /\ Len(last.queries) = 1

\* C3: a synthetic frame whose symbol start address is a key of the
\* introspection result is named exactly as the result maps that address.
C3_SubstitutedName ==
    SbtCalled =>
        \A i \in SyntheticFrames : \A e \in TableAt(FrameSymbol(i).start) :
            last.frame_string[i].name = e.value

C3_Witness ==
    /\ SbtCalled
    /\ Cardinality(TableEntries) >= 2
    /\ \E i, j \in SyntheticFrames :
           /\ last.frame_string[i].name = <<"-", "[", "Cls", " ", "m", "0", "]">>
           /\ last.frame_string[j].name = <<"+", "[", "Cls", " ", "m", "1", "]">>

\* C4: every frame of the trace carries one name: the original symbol name when
\* the symbol is non-synthetic, the method-table name when it is synthetic and
\* its start address is in the table, and otherwise the synthetic placeholder
\* followed by the unresolved marker.
C4_OneNamePerFrame ==
    SbtCalled =>
        \A i \in DOMAIN last.frame_addresses :
            LET sym == FrameSymbol(i)
                name == last.frame_string[i].name
            IN IF ~sym.synthetic THEN name = sym.name
               ELSE IF TableAt(sym.start) # {}
                    THEN /\ \E e \in TableAt(sym.start) : name = e.value
                         /\ name # sym.name \o UnresolvedMarker
                         /\ name # sym.name
                    ELSE /\ name = sym.name \o <<" ... unresolved womp womp">>
                         /\ \A e \in TableEntries : name # e.value

\* The scenario of the claim: [0x1000, 0x1001], 0x1000 a named symbol at offset
\* 0, 0x1001 synthetic and absent from the table.
C4_Witness ==
    /\ SbtCalled
    /\ last.frame_addresses = <<BaseAddr, BaseAddr + 1>>
    /\ ~FrameSymbol(1).synthetic
    /\ FrameSymbol(2).synthetic
    /\ last.methods_val.valid
    /\ TableAt(BaseAddr + 1) = {}
    /\ last.frame_string[1].name = <<"func_", "0">>
    /\ last.frame_string[1].offset_str = <<>>
    /\ last.frame_string[2].name =
           <<"___lldb_unnamed_symbol", "1", "$$", "MyApp", " ... unresolved womp womp">>

\* C5: with offset = frame address - start address of its symbol, the offset
\* suffix of a frame is empty when offset = 0 and is "+ k" when offset = k > 0,
\* in the sbt resolver and in the msl formatter.
C5_OffsetSuffix ==
    (SbtCalled \/ MslCalled) =>
        \A i \in DOMAIN last.frame_addresses :
            LET suffix == last.frame_string[i].offset_str
                k == FrameOffset(i)
            IN /\ k = 0 => suffix = <<>>
               /\ k > 0 => /\ Len(suffix) >= 3
                           /\ SubSeq(suffix, 1, 2) = <<"+", " ">>
                           /\ IsDecimal(SubSeq(suffix, 3, Len(suffix)))
                           /\ DecimalValue(SubSeq(suffix, 3, Len(suffix))) = k

C5_Witness ==
    /\ MslCalled
    /\ \E i, j \in DOMAIN last.frame_addresses :
           /\ FrameOffset(i) = 0
           /\ last.frame_string[i].offset_str = <<>>
           /\ FrameOffset(j) > 0
           /\ last.frame_string[j].offset_str = <<"+", " ", "1">>

\* C6: for n input addresses the trace has n lines, and the i-th line carries
\* index i (counted from 0) and the i-th input address, whatever the frames
\* resolve to; repeated addresses are neither merged nor reordered.
C6_OrderPreserved ==
    SbtCalled =>
        /\ Len(last.frame_string) = Len(last.frame_addresses)
        /\ \A i \in DOMAIN last.frame_addresses :
               LET line == last.frame_string[i]
               IN /\ IsDecimal(StripRight(line.index))
                  /\ DecimalValue(StripRight(line.index)) = i - 1
                  /\ SubSeq(line.addr, 1, 2) = <<"0", "x">>
                  /\ HexValue(line.addr) = last.frame_addresses[i]

C6_Witness ==
    /\ SbtCalled
    /\ Len(last.frame_string) = 3
    /\ last.frame_addresses[1] = last.frame_addresses[3]
    /\ last.frame_addresses[2] < last.frame_addresses[1]
    /\ 2 \in SyntheticFrames
    /\ 1 \notin SyntheticFrames

\* C7: when the introspection query fails, the resolver still returns a trace:
\* every synthetic frame is marked unresolved and every non-synthetic frame reads
\* as it does after a query that succeeds.
QueryFailed == SbtCalled /\ ~last.methods_val.valid

C7_QueryFailureDegrades ==
    QueryFailed =>
        /\ ~last.raised
        /\ Len(last.frame_string) = Len(last.frame_addresses)
        /\ \A i \in SyntheticFrames :
               last.frame_string[i].name = FrameSymbol(i).name \o UnresolvedMarker
        /\ \A i \in DOMAIN last.frame_addresses \ SyntheticFrames :
               \A enum \in Enumerations(RetDict) :
                   last.frame_string[i] =
                       sbt_process(last.frame_addresses,
                                   [query_ok |-> TRUE, enum |-> enum]).frame_string[i]

C7_Witness ==
    /\ QueryFailed
    /\ ~last.query_ok
    /\ ~last.raised
    /\ \E i \in SyntheticFrames : FrameSymbol(i).start \in methods
    /\ \E i \in DOMAIN last.frame_addresses : i \notin SyntheticFrames

\* C8: sbt invoked without a selected thread sets an error, resolves no address,
\* issues no query and appends no message; with a thread, a trace message is
\* appended.
C8_PausedGuard ==
    last.cmd = "sbt" =>
        IF last.thread.is_none
        THEN /\ last.error = "LLDB must be paused to execute this command"
             /\ last.resolved = <<>>
             /\ last.queries = <<>>
             /\ last.messages = <<>>
        ELSE /\ last.error = None
             /\ Len(last.messages) = 1
             /\ Len(last.messages[1]) = Len(last.thread.frames)

C8_Witness ==
    /\ last.cmd = "sbt"
    /\ last.thread.is_none
    /\ last.error # None
    /\ last.messages = <<>>

\* C9: get_register_string maps the triple to "$rax" when it contains "x86_64",
\* to "$eax" when it contains "i386", to "$x0" when it contains "arm64", and
\* fails with the unknown-hardware error for every other triple.
C9_RegisterMapping ==
    last.cmd = "bar_hit" =>
        LET has(sub) == \E i \in DOMAIN last.triple :
                            \/ last.triple[i] = sub
                            \/ last.triple[i] = "arm64e" /\ sub = "arm64"
                            \/ last.triple[i] = "x86_64h" /\ sub = "x86_64"
        IN /\ has("x86_64") => (~last.raised /\ last.register = "$rax")
           /\ has("i386") => (~last.raised /\ last.register = "$eax")
           /\ has("arm64") => (~last.raised /\ last.register = "$x0")
           /\ ~(has("x86_64") \/ has("i386") \/ has("arm64")) =>
                  /\ last.raised
                  /\ last.exception = "Unknown hardware."
                  /\ last.register = None
           /\ last.triple = <<"arm64", "apple", "ios">> => last.register = "$x0"
           /\ last.triple = <<"unknown", "triple">> => last.raised

C9_Witness ==
    /\ last.cmd = "bar_hit"
    /\ last.triple = <<"unknown", "triple">>
    /\ last.raised
    /\ last.exception = "Unknown hardware."

\* C10: two calls of the resolver with the same addresses, against the same
\* symbols, methods and query outcome, give the same trace, in whatever order
\* the host enumerates the introspection result each time.
C10_SameTraceTwice ==
    (prev.called /\ prev.query_ok = last.query_ok) =>
        prev.frame_string = last.frame_string

C10_Witness ==
    /\ prev.called
    /\ prev.query_ok = last.query_ok
    /\ Len(last.methods_val.children) = 2
    /\ prev.methods_val.children # last.methods_val.children
    /\ SyntheticFrames # {}
    /\ prev.frame_string = last.frame_string

\* The qualified name of the method at entry address a: "-[Type selector]" for
\* an instance method, "+[Type selector]" for a class method.
QualifiedName(a) ==
    LET m == MethodAt(a)
    IN <<IF m.kind = "-" THEN "-" ELSE "+", "[", m.cls, " ">> \o m.sel \o <<"]">>

\* The synthetic frames of the last call whose symbol starts at a method entry.
MethodFrames == { i \in SyntheticFrames : FrameSymbol(i).start \in methods }

\* C11 (as stated): after a query that succeeds, every synthetic frame whose
\* symbol starts at the entry of a method of any loaded image carries the
\* qualified name of that method (methods of root classes left aside).
C11_EveryImageResolved ==
    (SbtCalled /\ last.methods_val.valid) =>
        \A i \in MethodFrames :
            ~classes[FrameSymbol(i).start].root =>
                last.frame_string[i].name = QualifiedName(FrameSymbol(i).start)

\* C11 (amended): the query covers the classes of the main executable that have
\* a superclass, and no other image. After a query that succeeds, the result
\* maps the requested entry address of every method of such a class to its
\* qualified name and holds nothing else; a synthetic frame that starts at such
\* a method is resolved to that name, and one that starts at a method of
\* another image, or of a root class, stays marked unresolved.
C11_MainExecutableOnly ==
    (SbtCalled /\ last.methods_val.valid) =>
        /\ \A e \in TableEntries :
               /\ IsDecimal(e.key)
               /\ DecimalValue(e.key) \in methods
               /\ e.value = QualifiedName(DecimalValue(e.key))
        /\ \A i \in DOMAIN last.frame_addresses :
               LET a == FrameSymbol(i).start
               IN a \in methods =>
                      ((classes[a].image = "main" /\ ~classes[a].root)
                           <=> TableAt(a) # {})
        /\ \A i \in MethodFrames :
               LET a == FrameSymbol(i).start
               IN last.frame_string[i].name =
                      IF classes[a].image = "main" /\ ~classes[a].root
                      THEN QualifiedName(a)
                      ELSE FrameSymbol(i).name \o UnresolvedMarker

C11_Witness ==
    /\ SbtCalled
    /\ last.methods_val.valid
    /\ \E i, j \in MethodFrames :
           /\ classes[FrameSymbol(i).start].image = "lib"
           /\ last.frame_string[i].name = FrameSymbol(i).name \o UnresolvedMarker
           /\ classes[FrameSymbol(j).start].image = "main"
           /\ last.frame_string[j].name = QualifiedName(FrameSymbol(j).start)

\* C12: the get_register_string of lldb/breakafterregex.py and the one of
\* lldb/commands/breakafterregex.py give the same register name, or both fail
\* with the same error, on every triple string; on a triple with several of
\* the known substrings "x86_64" wins over "i386", and "i386" over "arm64".
C12_CopiesAgree ==
    last.cmd = "register" =>
        LET has(sub) == \E i \in DOMAIN last.triple : last.triple[i] = sub
            expected == IF has("x86_64") THEN "$rax"
                        ELSE IF has("i386") THEN "$eax"
                        ELSE IF has("arm64") THEN "$x0"
                        ELSE "Unknown hardware."
        IN /\ last.lldb.raised = last.commands.raised
           /\ last.lldb.value = last.commands.value
           /\ last.lldb.value = expected
           /\ last.lldb.raised <=> ~(has("x86_64") \/ has("i386") \/ has("arm64"))

C12_Witness ==
    /\ last.cmd = "register"
    /\ last.triple = <<"arm64", "i386", "x86_64">>
    /\ ~last.lldb.raised /\ ~last.commands.raised
    /\ last.lldb.value = "$rax"
    /\ last.commands.value = "$rax"

\* The positions of a call in the log of the last breakpoint callback.
StepsOf(call) == { i \in DOMAIN last.steps : last.steps[i] = call }

\* C13 (as stated): on every hit of a bar breakpoint the handler first records
\* the name of the hit function, then switches the debugger to synchronous
\* mode, then steps out, and evaluates the return-value register only after
\* the step-out; it prints at most one report, exactly one when the evaluation
\* has a result, naming the hit function and the frame stepped out to; and it
\* always returns False.
C13_StepOutThenEvaluateReturnFalse ==
    last.cmd = "bar_hit" =>
        /\ Len(last.steps) >= 3
        /\ last.steps[1] = "GetFunctionName"
        /\ last.steps[2] = "SetAsync(False)"
        /\ last.steps[3] = "StepOut"
        /\ StepsOf("StepOut") = {3}
        /\ \A i \in StepsOf("HandleCommand") : i > 3
        /\ Len(last.printed) <= 1
        /\ Len(last.printed) = 1 <=>
               (StepsOf("HandleCommand") # {} /\ last.has_result)
        /\ \A i \in DOMAIN last.printed :
               last.printed[i].object = last.function_name
        /\ last.returned = "False"

\* Reading the lookup output back: a hit-count line is "<count> hits in
\* <module>", a name line holds a symbol name and nothing else.
IsCountLine(line) ==
    /\ Len(line) >= 3
    /\ line[Len(line) - 1] = " hits in "
    /\ IsDecimal(SubSeq(line, 1, Len(line) - 2))

LineCount(line) == DecimalValue(SubSeq(line, 1, Len(line) - 2))
LineModule(line) == line[Len(line)]
IsNameLine(line) == Len(line) = 1 /\ line # Separator

LookupAnswered == last.cmd = "lookup" /\ last.command.kind = "query"

\* The positions of the hit-count lines in the output of the last lookup.
CountLinePositions ==
    SelectSeq([i \in 1 .. Len(last.output) |-> i],
              LAMBDA i : IsCountLine(last.output[i]))

\* The lines of the output under its k-th hit-count line.
LinesUnder(k) ==
    SubSeq(last.output, CountLinePositions[k] + 1,
           IF k < Len(CountLinePositions) THEN CountLinePositions[k + 1] - 1
           ELSE Len(last.output))

\* The defining modules of the contexts of the last lookup, each once, in the
\* order of their first context.
DefiningModules ==
    LET cl == last.context_list
        firsts == SelectSeq([i \in 1 .. Len(cl) |-> i],
                            LAMBDA i : \A j \in 1 .. (i - 1) :
                                cl[j].module.fullpath # cl[i].module.fullpath)
    IN [k \in DOMAIN firsts |-> cl[firsts[k]].module]

\* The contexts of the last lookup found in module m, in the order found.
ContextsIn(m) ==
    SelectSeq(last.context_list, LAMBDA c : c.module.fullpath = m.fullpath)

RECURSIVE SumOfCounts(_)
SumOfCounts(positions) ==
    IF Len(positions) = 0 THEN 0
    ELSE LineCount(last.output[Head(positions)]) + SumOfCounts(Tail(positions))

\* C14: the output of a lookup has exactly one hit-count line per distinct
\* defining module of the contexts found, carrying the number of contexts found
\* in that module; the counts sum to the number of contexts; with the
\* module-summary flag the output is these lines only, without it the symbol
\* name of every context is listed under the line of its own module.
C14_HitCountPerModule ==
    LookupAnswered =>
        /\ Len(CountLinePositions) =
               Cardinality({ last.context_list[i].module.fullpath :
                                 i \in DOMAIN last.context_list })
        /\ Len(CountLinePositions) = Len(DefiningModules)
        /\ \A k \in DOMAIN CountLinePositions :
               LET line == last.output[CountLinePositions[k]]
                   found == ContextsIn(DefiningModules[k])
               IN /\ LineModule(line) = DefiningModules[k].basename
                  /\ LineCount(line) = Len(found)
                  /\ IF last.options.module_summary
                     THEN LinesUnder(k) = <<>>
                     ELSE SelectSeq(LinesUnder(k), IsNameLine)
                              = [i \in DOMAIN found |-> <<found[i].symbol.name>>]
        /\ SumOfCounts(CountLinePositions) = Len(last.context_list)
        /\ last.options.module_summary =>
               Len(CountLinePositions) = Len(last.output)

C14_Witness ==
    /\ LookupAnswered
    /\ ~last.options.module_summary
    /\ Len(last.context_list) = 3
    /\ Len(CountLinePositions) = 2
    /\ LineCount(last.output[CountLinePositions[1]]) = 1
    /\ LineCount(last.output[CountLinePositions[2]]) = 2
    /\ LineModule(last.output[CountLinePositions[1]])
           = LineModule(last.output[CountLinePositions[2]])
    /\ Len(SelectSeq(LinesUnder(2), IsNameLine)) = 2

\* The calls of the last __generate_script that change or open a file.
WritingSteps ==
    { i \in DOMAIN last.steps :
          last.steps[i] \in {"open", "write", "chmod", "open -R"} }

\* C15: when __generate_script is given no file name, or the file it would
\* write exists already, it sets an error and leaves the file system as it
\* was, with no open, write or chmod; a call changes the file system only at
\* the path '<name>.py', and only when nothing was at that path before.
C15_NeverOverwrites ==
    last.cmd = "generate" =>
        LET no_filename == last.command.kind = "parsed" /\ last.command.args = <<>>
            named == last.command.kind = "parsed" /\ last.command.args # <<>>
            exists == named /\ last.fs_before[last.file_path].kind = "file"
        IN /\ (no_filename \/ exists) =>
                  /\ last.error # None
                  /\ last.fs_after = last.fs_before
                  /\ WritingSteps = {}
                  /\ last.messages = <<>>
           /\ named =>
                  /\ last.file_path \in ScriptPaths
                  /\ last.file_path[2] = last.command.args[1][1]
           /\ \A p \in ScriptPaths :
                  last.fs_after[p] # last.fs_before[p] =>
                      /\ named /\ p = last.file_path
                      /\ last.fs_before[p].kind = "absent"
                      /\ last.fs_after[p].kind = "file"

C15_Witness ==
    /\ last.cmd = "generate"
    /\ last.command.kind = "parsed"
    /\ last.command.args = << <<"foo">>, <<".txt">> >>
    /\ last.file_path = <<ScriptsDir, "foo", ".py">>
    /\ last.fs_before[last.file_path].kind = "file"
    /\ last.fs_before[<<ScriptsDir, "bar", ".py">>].kind = "absent"
    /\ last.error # None
    /\ last.fs_after = last.fs_before

====
